---- MODULE Spec2Model ----
(***************************************************************************)
(* Meihua (plum-blossom) divination LINE bot, src/app.py.                  *)
(*                                                                         *)
(* Two specifications over one set of variables:                           *)
(*   Spec      the life of a request: a divination command is handled      *)
(*             (parse, derive, format), the interpretation retriever       *)
(*             calls the generative service with retry and backoff, and    *)
(*             the reply is sent.                                          *)
(*   UnitSpec  the pure functions of the derivation engine called on       *)
(*             inputs drawn from bounded sets.                             *)
(*                                                                         *)
(* Chinese text cannot stand in a TLA+ string, so every Chinese string of  *)
(* the source is written as the hyphen-separated hexadecimal code points   *)
(* of its characters ("4E7E-70BA-5929" is U+4E7E U+70BA U+5929).           *)
(***************************************************************************)
EXTENDS Integers, Sequences, FiniteSets, TLC

VARIABLES
    USE_GEMINI,      \* module flag set at start-up (app.py 48-60)
    pc,              \* "idle" | "attempting" | "done" (Spec); "call" | "returned" | "formatted" (UnitSpec)
    cmd,             \* "none" | "number" | "time" | "random": the command being handled
    message,         \* text of a number command, a sequence of characters
    question,        \* the question handed to the retriever, a sequence of tokens
    gua_data,        \* the dict built by qigua_by_number / qigua_by_time / qigua_random
    ben_gua,         \* primary hexagram name from format_gua_result
    bian_gua,        \* changed hexagram name from format_gua_result
    attempt,         \* loop variable of get_ai_interpretation, 0 outside the loop
    outcomes,        \* outcome of every genai.generate call of this request, in order
    sleeps,          \* argument of every time.sleep call of this request, in order
    interpretation,  \* what get_ai_interpretation returned
    reply,           \* kind of string the handler returned
    called,          \* functions the handler invoked for this request
    fn,              \* UnitSpec: the function under call
    arg,             \* UnitSpec: its arguments, a tuple of integers
    ret              \* UnitSpec: its integer result (0 before the call)

vars == <<USE_GEMINI, pc, cmd, message, question, gua_data, ben_gua, bian_gua,
          attempt, outcomes, sleeps, interpretation, reply, called, fn, arg, ret>>

---------------------------------------------------------------------------
(* Bounds of the model *)

\* longest text after the leading command keyword of a number command
MaxTail == 5
\* random.randint(1, 999) is cut down to 1..MaxDraw (24 covers every residue mod 8 and mod 6)
MaxDraw == 24
\* seeds of a direct qigua_by_number call range over -MaxSeed..MaxSeed
MaxSeed == 12
\* arguments of num_to_gua / num_to_yao range over -MaxNum..MaxNum
MaxNum == 900
\* timestamps: the first MaxMonth months of the years LastYear-YearSpan..LastYear
LastYear == 2026
YearSpan == 0
MaxMonth == 2

---------------------------------------------------------------------------
(* Static tables *)

\* BAGUA_NUM, reduced to the 'name' field
BAGUA_NUM ==
    1 :> "4E7E" @@ 2 :> "514C" @@ 3 :> "96E2" @@ 4 :> "9707" @@
    5 :> "5DFD" @@ 6 :> "574E" @@ 7 :> "826E" @@ 8 :> "5764"

\* the same table with the entry (3,6) lost
HEXAGRAM_TABLE_incomplete ==
       <<1,1>> :> "4E7E-70BA-5929" @@ <<1,2>> :> "5929-6FA4-5C65"
    @@ <<1,3>> :> "5929-706B-540C-4EBA" @@ <<1,4>> :> "5929-96F7-7121-5984"
    @@ <<1,5>> :> "5929-98A8-59E4" @@ <<1,6>> :> "5929-6C34-8A1F"
    @@ <<1,7>> :> "5929-5C71-906F" @@ <<1,8>> :> "5929-5730-5426"
    @@ <<2,1>> :> "6FA4-5929-592C" @@ <<2,2>> :> "514C-70BA-6FA4"
    @@ <<2,3>> :> "6FA4-706B-9769" @@ <<2,4>> :> "6FA4-96F7-96A8"
    @@ <<2,5>> :> "6FA4-98A8-5927-904E" @@ <<2,6>> :> "6FA4-6C34-56F0"
    @@ <<2,7>> :> "6FA4-5C71-54B8" @@ <<2,8>> :> "6FA4-5730-8403"
    @@ <<3,1>> :> "706B-5929-5927-6709" @@ <<3,2>> :> "706B-6FA4-777D"
    @@ <<3,3>> :> "96E2-70BA-706B" @@ <<3,4>> :> "706B-96F7-566C-55D1"
    @@ <<3,5>> :> "706B-98A8-9F0E" @@ <<3,7>> :> "706B-5C71-65C5"
    @@ <<3,8>> :> "706B-5730-6649" @@ <<4,1>> :> "96F7-5929-5927-58EF"
    @@ <<4,2>> :> "96F7-6FA4-6B78-59B9" @@ <<4,3>> :> "96F7-706B-8C50"
    @@ <<4,4>> :> "9707-70BA-96F7" @@ <<4,5>> :> "96F7-98A8-6046"
    @@ <<4,6>> :> "96F7-6C34-89E3" @@ <<4,7>> :> "96F7-5C71-5C0F-904E"
    @@ <<4,8>> :> "96F7-5730-8C6B" @@ <<5,1>> :> "98A8-5929-5C0F-755C"
    @@ <<5,2>> :> "98A8-6FA4-4E2D-5B5A" @@ <<5,3>> :> "98A8-706B-5BB6-4EBA"
    @@ <<5,4>> :> "98A8-96F7-76CA" @@ <<5,5>> :> "5DFD-70BA-98A8"
    @@ <<5,6>> :> "98A8-6C34-6E19" @@ <<5,7>> :> "98A8-5C71-6F38"
    @@ <<5,8>> :> "98A8-5730-89C0" @@ <<6,1>> :> "6C34-5929-9700"
    @@ <<6,2>> :> "6C34-6FA4-7BC0" @@ <<6,3>> :> "6C34-706B-65E2-6FDF"
    @@ <<6,4>> :> "6C34-96F7-5C6F" @@ <<6,5>> :> "6C34-98A8-4E95"
    @@ <<6,6>> :> "574E-70BA-6C34" @@ <<6,7>> :> "6C34-5C71-8E47"
    @@ <<6,8>> :> "6C34-5730-6BD4" @@ <<7,1>> :> "5C71-5929-5927-755C"
    @@ <<7,2>> :> "5C71-6FA4-640D" @@ <<7,3>> :> "5C71-706B-8CC1"
    @@ <<7,4>> :> "5C71-96F7-9824" @@ <<7,5>> :> "5C71-98A8-8831"
    @@ <<7,6>> :> "5C71-6C34-8499" @@ <<7,7>> :> "826E-70BA-5C71"
    @@ <<7,8>> :> "5C71-5730-525D" @@ <<8,1>> :> "5730-5929-6CF0"
    @@ <<8,2>> :> "5730-6FA4-81E8" @@ <<8,3>> :> "5730-706B-660E-5937"
    @@ <<8,4>> :> "5730-96F7-5FA9" @@ <<8,5>> :> "5730-98A8-5347"
    @@ <<8,6>> :> "5730-6C34-5E2B" @@ <<8,7>> :> "5730-5C71-8B19"
    @@ <<8,8>> :> "5764-70BA-5730"

HEXAGRAM_TABLE ==
       <<1,1>> :> "4E7E-70BA-5929" @@ <<1,2>> :> "5929-6FA4-5C65"
    @@ <<1,3>> :> "5929-706B-540C-4EBA" @@ <<1,4>> :> "5929-96F7-7121-5984"
    @@ <<1,5>> :> "5929-98A8-59E4" @@ <<1,6>> :> "5929-6C34-8A1F"
    @@ <<1,7>> :> "5929-5C71-906F" @@ <<1,8>> :> "5929-5730-5426"
    @@ <<2,1>> :> "6FA4-5929-592C" @@ <<2,2>> :> "514C-70BA-6FA4"
    @@ <<2,3>> :> "6FA4-706B-9769" @@ <<2,4>> :> "6FA4-96F7-96A8"
    @@ <<2,5>> :> "6FA4-98A8-5927-904E" @@ <<2,6>> :> "6FA4-6C34-56F0"
    @@ <<2,7>> :> "6FA4-5C71-54B8" @@ <<2,8>> :> "6FA4-5730-8403"
    @@ <<3,1>> :> "706B-5929-5927-6709" @@ <<3,2>> :> "706B-6FA4-777D"
    @@ <<3,3>> :> "96E2-70BA-706B" @@ <<3,4>> :> "706B-96F7-566C-55D1"
    @@ <<3,5>> :> "706B-98A8-9F0E" @@ <<3,6>> :> "706B-6C34-672A-6FDF"
    @@ <<3,7>> :> "706B-5C71-65C5" @@ <<3,8>> :> "706B-5730-6649"
    @@ <<4,1>> :> "96F7-5929-5927-58EF" @@ <<4,2>> :> "96F7-6FA4-6B78-59B9"
    @@ <<4,3>> :> "96F7-706B-8C50" @@ <<4,4>> :> "9707-70BA-96F7"
    @@ <<4,5>> :> "96F7-98A8-6046" @@ <<4,6>> :> "96F7-6C34-89E3"
    @@ <<4,7>> :> "96F7-5C71-5C0F-904E" @@ <<4,8>> :> "96F7-5730-8C6B"
    @@ <<5,1>> :> "98A8-5929-5C0F-755C" @@ <<5,2>> :> "98A8-6FA4-4E2D-5B5A"
    @@ <<5,3>> :> "98A8-706B-5BB6-4EBA" @@ <<5,4>> :> "98A8-96F7-76CA"
    @@ <<5,5>> :> "5DFD-70BA-98A8" @@ <<5,6>> :> "98A8-6C34-6E19"
    @@ <<5,7>> :> "98A8-5C71-6F38" @@ <<5,8>> :> "98A8-5730-89C0"
    @@ <<6,1>> :> "6C34-5929-9700" @@ <<6,2>> :> "6C34-6FA4-7BC0"
    @@ <<6,3>> :> "6C34-706B-65E2-6FDF" @@ <<6,4>> :> "6C34-96F7-5C6F"
    @@ <<6,5>> :> "6C34-98A8-4E95" @@ <<6,6>> :> "574E-70BA-6C34"
    @@ <<6,7>> :> "6C34-5C71-8E47" @@ <<6,8>> :> "6C34-5730-6BD4"
    @@ <<7,1>> :> "5C71-5929-5927-755C" @@ <<7,2>> :> "5C71-6FA4-640D"
    @@ <<7,3>> :> "5C71-706B-8CC1" @@ <<7,4>> :> "5C71-96F7-9824"
    @@ <<7,5>> :> "5C71-98A8-8831" @@ <<7,6>> :> "5C71-6C34-8499"
    @@ <<7,7>> :> "826E-70BA-5C71" @@ <<7,8>> :> "5C71-5730-525D"
    @@ <<8,1>> :> "5730-5929-6CF0" @@ <<8,2>> :> "5730-6FA4-81E8"
    @@ <<8,3>> :> "5730-706B-660E-5937" @@ <<8,4>> :> "5730-96F7-5FA9"
    @@ <<8,5>> :> "5730-98A8-5347" @@ <<8,6>> :> "5730-6C34-5E2B"
    @@ <<8,7>> :> "5730-5C71-8B19" @@ <<8,8>> :> "5764-70BA-5730"

\* default of HEXAGRAM_TABLE.get(..., default) in format_gua_result
UNKNOWN_GUA == "672A-77E5-5366"

\* the local dicts of get_bian_gua; a line pattern is a tuple, Python index i is TLA+ index i+1
gua_binary ==
    1 :> <<1,1,1>> @@ 2 :> <<0,1,1>> @@ 3 :> <<1,0,1>> @@ 4 :> <<0,0,1>> @@
    5 :> <<1,1,0>> @@ 6 :> <<0,1,0>> @@ 7 :> <<1,0,0>> @@ 8 :> <<0,0,0>>

binary_to_gua ==
    <<1,1,1>> :> 1 @@ <<0,1,1>> :> 2 @@ <<1,0,1>> :> 3 @@ <<0,0,1>> :> 4 @@
    <<1,1,0>> :> 5 @@ <<0,1,0>> :> 6 @@ <<1,0,0>> :> 7 @@ <<0,0,0>> :> 8

max_attempts == 3
backoff_seconds == 5

---------------------------------------------------------------------------
(* Seed derivation and the derivation engine *)

\* Python's % with a positive modulus is the floored remainder, as TLA+'s
num_to_gua_noremap(num) == num % 8

num_to_gua(num) ==
    LET remainder == num % 8
    IN  IF remainder = 0 THEN 8 ELSE remainder

num_to_yao_noremap(num) == num % 6

num_to_yao(num) ==
    LET remainder == num % 6
    IN  IF remainder = 0 THEN 6 ELSE remainder

get_bian_gua_noflip(gua_num, yao_position) == gua_num

get_bian_gua(gua_num, yao_position) ==
    LET binary == gua_binary[gua_num]
        yao_index == (yao_position - 1) % 3
        flipped == [binary EXCEPT ![yao_index + 1] = 1 - binary[yao_index + 1]]
    IN  binary_to_gua[flipped]

\* the moving line changes the wrong trigram
qigua_by_number_swapped(num1, num2) ==
    LET upper_gua == num_to_gua(num1)
        lower_gua == num_to_gua(num2)
        yao == num_to_yao(num1 + num2)
    IN  [upper |-> upper_gua, lower |-> lower_gua, yao |-> yao,
         bian_upper |-> IF yao <= 3 THEN get_bian_gua(upper_gua, yao) ELSE upper_gua,
         bian_lower |-> IF yao <= 3 THEN lower_gua ELSE get_bian_gua(lower_gua, yao - 3)]

qigua_by_number(num1, num2) ==
    LET upper_gua == num_to_gua(num1)
        lower_gua == num_to_gua(num2)
        yao == num_to_yao(num1 + num2)
    IN  [upper |-> upper_gua, lower |-> lower_gua, yao |-> yao,
         bian_upper |-> IF yao <= 3 THEN upper_gua ELSE get_bian_gua(upper_gua, yao - 3),
         bian_lower |-> IF yao <= 3 THEN get_bian_gua(lower_gua, yao) ELSE lower_gua]

\* the moving line taken from the sum of both seeds, as qigua_by_number takes it
qigua_by_time_sum(now) ==
    LET hour_num == IF ((now.hour + 1) \div 2) % 12 = 0 THEN 12
                    ELSE ((now.hour + 1) \div 2) % 12
        upper_num == now.year + now.month + now.day
        lower_num == upper_num + hour_num
        upper_gua == num_to_gua(upper_num)
        lower_gua == num_to_gua(lower_num)
        yao == num_to_yao(upper_num + lower_num)
    IN  [upper |-> upper_gua, lower |-> lower_gua, yao |-> yao,
         bian_upper |-> IF yao <= 3 THEN upper_gua ELSE get_bian_gua(upper_gua, yao - 3),
         bian_lower |-> IF yao <= 3 THEN get_bian_gua(lower_gua, yao) ELSE lower_gua,
         time_info |-> <<now.year, now.month, now.day, now.hour>>]

\* now is a record [year, month, day, hour]; time_info keeps the four numbers of the f-string
qigua_by_time(now) ==
    LET hour_num == IF ((now.hour + 1) \div 2) % 12 = 0 THEN 12
                    ELSE ((now.hour + 1) \div 2) % 12
        upper_num == now.year + now.month + now.day
        lower_num == upper_num + hour_num
        upper_gua == num_to_gua(upper_num)
        lower_gua == num_to_gua(lower_num)
        yao == num_to_yao(lower_num)
    IN  [upper |-> upper_gua, lower |-> lower_gua, yao |-> yao,
         bian_upper |-> IF yao <= 3 THEN upper_gua ELSE get_bian_gua(upper_gua, yao - 3),
         bian_lower |-> IF yao <= 3 THEN get_bian_gua(lower_gua, yao) ELSE lower_gua,
         time_info |-> <<now.year, now.month, now.day, now.hour>>]

\* qigua_random once random.randint has drawn num1 and num2
qigua_random(num1, num2) ==
    [upper |-> qigua_by_number(num1, num2).upper,
     lower |-> qigua_by_number(num1, num2).lower,
     yao |-> qigua_by_number(num1, num2).yao,
     bian_upper |-> qigua_by_number(num1, num2).bian_upper,
     bian_lower |-> qigua_by_number(num1, num2).bian_lower,
     random_nums |-> <<num1, num2>>]

\* HEXAGRAM_TABLE.get(key, UNKNOWN_GUA)
HexagramName(key) ==
    IF key \in DOMAIN HEXAGRAM_TABLE THEN HEXAGRAM_TABLE[key] ELSE UNKNOWN_GUA

\* format_gua_result: the names and moving line it returns; the trigram lookups in
\* BAGUA_NUM are what make it fail on an index outside 1..8
format_gua_result(g) ==
    [upper_name |-> BAGUA_NUM[g.upper], lower_name |-> BAGUA_NUM[g.lower],
     bian_upper_name |-> BAGUA_NUM[g.bian_upper], bian_lower_name |-> BAGUA_NUM[g.bian_lower],
     ben_gua |-> HexagramName(<<g.upper, g.lower>>),
     bian_gua |-> HexagramName(<<g.bian_upper, g.bian_lower>>),
     yao |-> g.yao]

---------------------------------------------------------------------------
(* Text of a number command *)

\* One symbol stands for the four-character command keyword 6578-5B57-5360-535C;
\* the other characters are a digit, a sign, a letter and a blank.
KEYWORD == "K"
Alphabet == {"1", "-", "x", " ", KEYWORD}
Digits == {"1"}

NotKeyword(c) == c # KEYWORD

\* message.replace(KEYWORD, ''): every occurrence is removed, not only the leading one
RemoveKeyword(s) == SelectSeq(s, NotKeyword)

RECURSIVE Strip(_)
\* str.strip()
Strip(s) ==
    IF s = <<>> THEN s
    ELSE IF Head(s) = " " THEN Strip(Tail(s))
    ELSE IF s[Len(s)] = " " THEN Strip(SubSeq(s, 1, Len(s) - 1))
    ELSE s

RECURSIVE SplitAcc(_, _, _)
SplitAcc(s, cur, acc) ==
    IF s = <<>> THEN (IF cur = <<>> THEN acc ELSE Append(acc, cur))
    ELSE IF Head(s) = " "
         THEN SplitAcc(Tail(s), <<>>, IF cur = <<>> THEN acc ELSE Append(acc, cur))
         ELSE SplitAcc(Tail(s), Append(cur, Head(s)), acc)

\* str.split(): the maximal runs of non-blank characters, in order
Split(s) == SplitAcc(s, <<>>, <<>>)

\* the digits of a token once an optional leading sign is dropped
Unsigned(tok) == IF tok # <<>> /\ Head(tok) = "-" THEN Tail(tok) ELSE tok

\* int(tok) does not raise ValueError: an optional sign, then one or more digits
IsInt(tok) ==
    /\ Unsigned(tok) # <<>>
    /\ \A i \in 1..Len(Unsigned(tok)) : Unsigned(tok)[i] \in Digits

DigitValue(c) == IF c = "1" THEN 1 ELSE 0

RECURSIVE Magnitude(_)
Magnitude(ds) ==
    IF ds = <<>> THEN 0
    ELSE 10 * Magnitude(SubSeq(ds, 1, Len(ds) - 1)) + DigitValue(ds[Len(ds)])

\* int(tok) for a token IsInt accepts
PyInt(tok) ==
    IF Head(tok) = "-" THEN 0 - Magnitude(Unsigned(tok)) ELSE Magnitude(Unsigned(tok))

\* parts of process_number_divination
Parts(m) == Split(Strip(RemoveKeyword(m)))

\* ' '.join(parts[2:]) if len(parts) > 2 else the default question, kept as tokens
DEFAULT_QUESTION == << <<"8ACB-89E3-8B80-6B64-5366-8C61">> >>
TIME_QUESTION == << <<"8ACB-70BA-6211-89E3-8B80-7576-4E0B-7684-904B-52E2">> >>
RANDOM_QUESTION == << <<"8ACB-70BA-6211-89E3-8B80-6574-9AD4-904B-52E2">> >>

---------------------------------------------------------------------------
(* Inputs *)

\* number commands as handle_message routes them: the text starts with the keyword
Messages ==
    { <<KEYWORD>> \o t : t \in UNION { [1..n -> Alphabet] : n \in 0..MaxTail } }

IsLeap(y) == (y % 4 = 0 /\ y % 100 # 0) \/ y % 400 = 0

DaysInMonth(y, m) ==
    IF m = 2 THEN (IF IsLeap(y) THEN 29 ELSE 28)
    ELSE IF m \in {4, 6, 9, 11} THEN 30 ELSE 31

\* values datetime.now() can return, within the bounds
Timestamps ==
    { [year |-> y, month |-> m, day |-> d, hour |-> h] :
        y \in (LastYear - YearSpan)..LastYear, m \in 1..MaxMonth, d \in 1..31, h \in 0..23 }

ValidTimestamps == { t \in Timestamps : t.day <= DaysInMonth(t.year, t.month) }

Draws == 1..MaxDraw

NoGua == [upper |-> 0, lower |-> 0, yao |-> 0, bian_upper |-> 0, bian_lower |-> 0]
NoInterpretation == [body |-> "none", notice |-> "none"]

---------------------------------------------------------------------------
(* Start-up *)

\* lines 47-60: the flag is set only when the key is present and genai.configure succeeds
StartupFlag(key_present, configure_ok) == key_present /\ configure_ok

Init ==
    /\ \E key_present \in BOOLEAN, configure_ok \in BOOLEAN :
          USE_GEMINI = StartupFlag(key_present, configure_ok)
    /\ pc = "idle"
    /\ cmd = "none"
    /\ message = <<>>
    /\ question = <<>>
    /\ gua_data = NoGua
    /\ ben_gua = ""
    /\ bian_gua = ""
    /\ attempt = 0
    /\ outcomes = <<>>
    /\ sleeps = <<>>
    /\ interpretation = NoInterpretation
    /\ reply = "none"
    /\ called = {}
    /\ fn = "none"
    /\ arg = <<>>
    /\ ret = 0

---------------------------------------------------------------------------
(* The interpretation retriever, get_ai_interpretation *)

\* the retriever tries the service whatever the flag says
LocalOnly_never == FALSE

\* line 243: if not USE_GEMINI
LocalOnly == ~USE_GEMINI

\* the wait doubles with every attempt
SleepTime_exponential(k) == backoff_seconds * (2 ^ k)

\* line 279: sleep_time = backoff_seconds * attempt
SleepTime(k) == backoff_seconds * k

\* the loop gives up one attempt early
LastAttempt_early(k) == k >= max_attempts - 1

\* line 278: not (attempt < max_attempts)
LastAttempt(k) == ~(k < max_attempts)

LOCAL_NO_KEY == [body |-> "local", notice |-> "no_key"]
LOCAL_BUSY == [body |-> "local", notice |-> "busy"]
SERVICE_TEXT == [body |-> "service", notice |-> "none"]

\* entry of get_ai_interpretation, lines 243-251: without the flag it returns at once
EnterInterpretation ==
    /\ outcomes' = <<>>
    /\ sleeps' = <<>>
    /\ IF LocalOnly
       THEN /\ interpretation' = LOCAL_NO_KEY
            /\ attempt' = 0
            /\ pc' = "done"
            /\ reply' = "reading"
       ELSE /\ interpretation' = NoInterpretation
            /\ attempt' = 1
            /\ pc' = "attempting"
            /\ reply' = "none"

\* lines 254-274: genai.generate returns a non-empty text, which is returned
GenerateReturnsText ==
    /\ pc = "attempting"
    /\ outcomes' = Append(outcomes, "text")
    /\ interpretation' = SERVICE_TEXT
    /\ pc' = "done"
    /\ reply' = "reading"
    /\ UNCHANGED <<USE_GEMINI, cmd, message, question, gua_data, ben_gua, bian_gua,
                   attempt, sleeps, called, fn, arg, ret>>

\* lines 276-286: the call raised ("error") or gave no text ("empty", RuntimeError at 272)
GenerateFails(o) ==
    /\ pc = "attempting"
    /\ outcomes' = Append(outcomes, o)
    /\ IF LastAttempt(attempt)
       THEN /\ interpretation' = LOCAL_BUSY
            /\ pc' = "done"
            /\ reply' = "reading"
            /\ UNCHANGED <<attempt, sleeps>>
       ELSE /\ sleeps' = Append(sleeps, SleepTime(attempt))
            /\ attempt' = attempt + 1
            /\ UNCHANGED <<interpretation, pc, reply>>
    /\ UNCHANGED <<USE_GEMINI, cmd, message, question, gua_data, ben_gua, bian_gua,
                   called, fn, arg, ret>>

---------------------------------------------------------------------------
(* The handlers *)

\* the handler returns an error string before any derivation
Rejected(kind) ==
    /\ reply' = kind
    /\ pc' = "done"
    /\ question' = <<>>
    /\ gua_data' = NoGua
    /\ ben_gua' = ""
    /\ bian_gua' = ""
    /\ called' = {}
    /\ UNCHANGED <<attempt, outcomes, sleeps, interpretation>>

\* derivation done: format_gua_result, then get_ai_interpretation
Derived(g, q, by) ==
    /\ gua_data' = g
    /\ ben_gua' = format_gua_result(g).ben_gua
    /\ bian_gua' = format_gua_result(g).bian_gua
    /\ question' = q
    /\ called' = by \cup {"format_gua_result", "get_ai_interpretation"}
    /\ EnterInterpretation

process_number_divination(m) ==
    /\ pc = "idle"
    /\ cmd' = "number"
    /\ message' = m
    /\ IF Len(Parts(m)) < 2
       THEN Rejected("usage_error")
       ELSE IF ~(IsInt(Parts(m)[1]) /\ IsInt(Parts(m)[2]))
            THEN Rejected("value_error")
            ELSE Derived(qigua_by_number(PyInt(Parts(m)[1]), PyInt(Parts(m)[2])),
                         IF Len(Parts(m)) > 2
                            THEN SubSeq(Parts(m), 3, Len(Parts(m)))
                            ELSE DEFAULT_QUESTION,
                         {"qigua_by_number"})
    /\ UNCHANGED <<USE_GEMINI, fn, arg, ret>>

\* process_divination(question, 'time') as handle_message calls it (line 333)
process_divination_time(now) ==
    /\ pc = "idle"
    /\ cmd' = "time"
    /\ message' = <<>>
    /\ Derived(qigua_by_time(now), TIME_QUESTION, {"qigua_by_time"})
    /\ UNCHANGED <<USE_GEMINI, fn, arg, ret>>

\* process_divination(question, 'random') (line 336), random.randint having drawn num1, num2
process_divination_random(num1, num2) ==
    /\ pc = "idle"
    /\ cmd' = "random"
    /\ message' = <<>>
    /\ Derived(qigua_random(num1, num2), RANDOM_QUESTION, {"qigua_random", "qigua_by_number"})
    /\ UNCHANGED <<USE_GEMINI, fn, arg, ret>>

\* handle_message sends the reply (line 346); nothing of the request is kept
ReplyMessage ==
    /\ pc = "done"
    /\ pc' = "idle"
    /\ cmd' = "none"
    /\ message' = <<>>
    /\ question' = <<>>
    /\ gua_data' = NoGua
    /\ ben_gua' = ""
    /\ bian_gua' = ""
    /\ attempt' = 0
    /\ outcomes' = <<>>
    /\ sleeps' = <<>>
    /\ interpretation' = NoInterpretation
    /\ reply' = "none"
    /\ called' = {}
    /\ UNCHANGED <<USE_GEMINI, fn, arg, ret>>

\* a request arrives only when none is being handled (one unit of work per message)
NumberCommand == pc = "idle" /\ \E m \in Messages : process_number_divination(m)

TimeCommand == pc = "idle" /\ \E now \in ValidTimestamps : process_divination_time(now)

RandomCommand ==
    pc = "idle" /\ \E num1 \in Draws, num2 \in Draws : process_divination_random(num1, num2)

Next ==
    \/ NumberCommand
    \/ TimeCommand
    \/ RandomCommand
    \/ GenerateReturnsText
    \/ \E o \in {"error", "empty"} : GenerateFails(o)
    \/ ReplyMessage

Spec == Init /\ [][Next]_vars

\* one step of the retry loop
RetrieverStep == GenerateReturnsText \/ \E o \in {"error", "empty"} : GenerateFails(o)

\* genai.generate is a blocking call that returns or raises, and the loop then goes on
FairSpec == Spec /\ WF_vars(RetrieverStep)

---------------------------------------------------------------------------
(* The pure functions called on their own *)

Seeds == (0 - MaxSeed)..MaxSeed
Nums == (0 - MaxNum)..MaxNum

UnitCalls ==
    ({"num_to_gua", "num_to_yao"} \X { <<n>> : n \in Nums })
    \cup ({"qigua_by_number"} \X (Seeds \X Seeds))
    \cup ({"qigua_by_time"} \X { <<t.year, t.month, t.day, t.hour>> : t \in ValidTimestamps })

UnitInit ==
    /\ USE_GEMINI = FALSE
    /\ pc = "call"
    /\ cmd = "none"
    /\ message = <<>>
    /\ question = <<>>
    /\ gua_data = NoGua
    /\ ben_gua = ""
    /\ bian_gua = ""
    /\ attempt = 0
    /\ outcomes = <<>>
    /\ sleeps = <<>>
    /\ interpretation = NoInterpretation
    /\ reply = "none"
    /\ called = {}
    /\ ret = 0
    /\ \E c \in UnitCalls : fn = c[1] /\ arg = c[2]

UnitFrame ==
    UNCHANGED <<USE_GEMINI, cmd, message, question, attempt, outcomes, sleeps,
                interpretation, reply, called, fn, arg>>

call_num_to_gua ==
    /\ pc = "call" /\ fn = "num_to_gua"
    /\ ret' = num_to_gua(arg[1])
    /\ pc' = "returned"
    /\ UNCHANGED <<gua_data, ben_gua, bian_gua>>
    /\ UnitFrame

call_num_to_yao ==
    /\ pc = "call" /\ fn = "num_to_yao"
    /\ ret' = num_to_yao(arg[1])
    /\ pc' = "returned"
    /\ UNCHANGED <<gua_data, ben_gua, bian_gua>>
    /\ UnitFrame

call_qigua_by_number ==
    /\ pc = "call" /\ fn = "qigua_by_number"
    /\ gua_data' = qigua_by_number(arg[1], arg[2])
    /\ pc' = "returned"
    /\ UNCHANGED <<ret, ben_gua, bian_gua>>
    /\ UnitFrame

call_qigua_by_time ==
    /\ pc = "call" /\ fn = "qigua_by_time"
    /\ gua_data' = qigua_by_time([year |-> arg[1], month |-> arg[2],
                                  day |-> arg[3], hour |-> arg[4]])
    /\ pc' = "returned"
    /\ UNCHANGED <<ret, ben_gua, bian_gua>>
    /\ UnitFrame

call_format_gua_result ==
    /\ pc = "returned" /\ fn \in {"qigua_by_number", "qigua_by_time"}
    /\ ben_gua' = format_gua_result(gua_data).ben_gua
    /\ bian_gua' = format_gua_result(gua_data).bian_gua
    /\ pc' = "formatted"
    /\ UNCHANGED <<ret, gua_data>>
    /\ UnitFrame

UnitNext ==
    \/ call_num_to_gua
    \/ call_num_to_yao
    \/ call_qigua_by_number
    \/ call_qigua_by_time
    \/ call_format_gua_result

UnitSpec == UnitInit /\ [][UnitNext]_vars

---------------------------------------------------------------------------
(* Properties *)

\* the dict in gua_data was built by qigua_by_number / by qigua_by_time
ByNumber == (fn = "qigua_by_number" /\ pc # "call") \/ "qigua_by_number" \in called
ByTime == (fn = "qigua_by_time" /\ pc # "call") \/ "qigua_by_time" \in called

\* the six lines of a hexagram, upper trigram first
Lines(upper, lower) == gua_binary[upper] \o gua_binary[lower]

DiffCount(a, b) == Cardinality({ i \in 1..6 : a[i] # b[i] })

\* the trigram whose pattern is that of t with the bit at (0-based) index i flipped
FlippedTrigram(t, i) ==
    CHOOSE u \in 1..8 :
        gua_binary[u] = [gua_binary[t] EXCEPT ![i + 1] = 1 - gua_binary[t][i + 1]]

\* the five derived fields of a result
Core(g) ==
    [upper |-> g.upper, lower |-> g.lower, yao |-> g.yao,
     bian_upper |-> g.bian_upper, bian_lower |-> g.bian_lower]

\* ((hour + 1) div 2) mod 12, residue 0 counted as 12
DoubleHourIndex(hour) ==
    IF ((hour + 1) \div 2) % 12 = 0 THEN 12 ELSE ((hour + 1) \div 2) % 12

\* the two seeds of the temporal strategy for a unit call of qigua_by_time
TimeSeed1 == arg[1] + arg[2] + arg[3]
TimeSeed2 == TimeSeed1 + DoubleHourIndex(arg[4])

\* C1: the changed hexagram of qigua_by_number differs from the primary hexagram in
\* exactly one of the six lines, never none and never more than one.
C1_ExactlyOneLineChanges ==
    ByNumber =>
        DiffCount(Lines(gua_data.upper, gua_data.lower),
                  Lines(gua_data.bian_upper, gua_data.bian_lower)) = 1

C1_Witness ==
    /\ fn = "qigua_by_number" /\ pc = "returned"
    /\ arg[1] < 0
    /\ gua_data.yao = 6
    /\ gua_data.bian_upper # gua_data.upper
    /\ gua_data.bian_lower = gua_data.lower

\* C2: with moving line m, if m <= 3 the changed lower trigram is the lower trigram with
\* bit (m - 1) mod 3 flipped and the upper trigram is kept; otherwise the changed upper
\* trigram is the upper trigram with bit (m - 4) mod 3 flipped and the lower trigram is
\* kept. qigua_by_number(1, 1) gives upper 1, lower 1, moving line 2, changed 1 over 3.
C2_MovingLineFlipsItsTrigram ==
    ByNumber =>
        /\ gua_data.yao \in 1..6
        /\ IF gua_data.yao <= 3
           THEN /\ gua_data.bian_lower = FlippedTrigram(gua_data.lower, (gua_data.yao - 1) % 3)
                /\ gua_data.bian_upper = gua_data.upper
           ELSE /\ gua_data.bian_upper = FlippedTrigram(gua_data.upper, (gua_data.yao - 4) % 3)
                /\ gua_data.bian_lower = gua_data.lower
        /\ (fn = "qigua_by_number" /\ arg = <<1, 1>>) =>
               Core(gua_data) = [upper |-> 1, lower |-> 1, yao |-> 2,
                                 bian_upper |-> 1, bian_lower |-> 3]

C2_Witness ==
    /\ fn = "qigua_by_number" /\ pc = "returned"
    /\ arg = <<1, 1>>
    /\ gua_data.yao = 2
    /\ gua_data.bian_lower = 3

\* C3 as stated: qigua_by_time returns what qigua_by_number returns on
\* seed1 = year + month + day and seed2 = seed1 + doubleHourIndex, its moving line
\* being num_to_yao(seed1 + seed2).
C3_TimeEqualsDerive ==
    (fn = "qigua_by_time" /\ pc # "call") =>
        /\ Core(gua_data) = qigua_by_number(TimeSeed1, TimeSeed2)
        /\ gua_data.yao = num_to_yao(TimeSeed1 + TimeSeed2)

\* C3 amended: qigua_by_time returns the upper and lower trigram of seed1 and seed2, its
\* moving line is num_to_yao(seed2) (seed1 is not added again), and the changed trigrams
\* follow from that moving line by the rule of qigua_by_number.
C3_TimeMovingLineFromSeed2 ==
    (fn = "qigua_by_time" /\ pc # "call") =>
        /\ gua_data.upper = num_to_gua(TimeSeed1)
        /\ gua_data.lower = num_to_gua(TimeSeed2)
        /\ gua_data.yao = num_to_yao(TimeSeed2)
        /\ IF gua_data.yao <= 3
           THEN /\ gua_data.bian_lower = FlippedTrigram(gua_data.lower, (gua_data.yao - 1) % 3)
                /\ gua_data.bian_upper = gua_data.upper
           ELSE /\ gua_data.bian_upper = FlippedTrigram(gua_data.upper, (gua_data.yao - 4) % 3)
                /\ gua_data.bian_lower = gua_data.lower

C3_Witness ==
    /\ fn = "qigua_by_time" /\ pc = "returned"
    /\ gua_data.yao = num_to_yao(TimeSeed2)
    /\ gua_data.yao # num_to_yao(TimeSeed1 + TimeSeed2)

AllFailed(os) == \A i \in 1..Len(os) : os[i] \in {"error", "empty"}

FirstTextIsLast(os) ==
    /\ Len(os) >= 1
    /\ os[Len(os)] = "text"
    /\ AllFailed(SubSeq(os, 1, Len(os) - 1))

C4_Safety ==
    USE_GEMINI =>
        /\ Len(outcomes) <= 3
        /\ pc = "attempting" =>
              /\ AllFailed(outcomes)
              /\ Len(outcomes) < 3
              /\ attempt = Len(outcomes) + 1
        /\ (pc = "done" /\ "get_ai_interpretation" \in called) =>
              /\ reply = "reading"
              /\ interpretation \in {SERVICE_TEXT, LOCAL_BUSY}
              /\ interpretation = SERVICE_TEXT <=> FirstTextIsLast(outcomes)
              /\ interpretation = LOCAL_BUSY <=> (Len(outcomes) = 3 /\ AllFailed(outcomes))

\* C4: with the credential configured, whatever the outcomes of the external call, the
\* retriever finishes after at most 3 calls: with the service text at the first attempt
\* that returns text (no call follows it), with the local fallback and its disclaimer
\* exactly when all 3 attempts failed; and it always finishes with a narrative.
C4_RetrieverTerminates ==
    /\ []C4_Safety
    /\ (pc = "attempting") ~> (pc = "done" /\ interpretation # NoInterpretation)

C4_Witness ==
    /\ USE_GEMINI /\ pc = "done"
    /\ outcomes = <<"error", "empty", "text">>
    /\ interpretation = SERVICE_TEXT

\* C5: without a credential every request gets the local fallback with its disclaimer,
\* no external call is made and no backoff wait happens; handling a request never
\* changes the flag.
C5_NoCredentialNeverCalls ==
    /\ [](~USE_GEMINI =>
            /\ outcomes = <<>>
            /\ sleeps = <<>>
            /\ pc # "attempting"
            /\ "get_ai_interpretation" \in called =>
                  (pc = "done" /\ reply = "reading" /\ interpretation = LOCAL_NO_KEY))
    /\ [][USE_GEMINI' = USE_GEMINI]_vars

C5_Witness ==
    /\ ~USE_GEMINI /\ pc = "done" /\ cmd = "time"
    /\ "get_ai_interpretation" \in called
    /\ interpretation = LOCAL_NO_KEY
    /\ outcomes = <<>>

\* the text after the command keyword at the head of the message, split at blanks
TokensAfterKeyword(m) == Split(Tail(m))

\* C6: for a number command, if fewer than two tokens follow the command keyword or
\* one of the first two is not an integer, the handler returns a format error and calls
\* neither qigua_by_number nor get_ai_interpretation.
C6_BadTokensNeverDerive ==
    (cmd = "number" /\ pc # "idle") =>
        ((\/ Len(TokensAfterKeyword(message)) < 2
          \/ ~IsInt(TokensAfterKeyword(message)[1])
          \/ ~IsInt(TokensAfterKeyword(message)[2]))
         => /\ reply \in {"usage_error", "value_error"}
            /\ "qigua_by_number" \notin called
            /\ "get_ai_interpretation" \notin called)

\* C7: num_to_gua(n) is in 1..8 and has period 8 for every integer n, negative ones
\* included, and every multiple of 8 (168, 888) maps to 8.
C7_TrigramFromSeed ==
    (fn = "num_to_gua" /\ pc = "returned") =>
        /\ ret \in 1..8
        /\ ret = num_to_gua(arg[1] + 8)
        /\ (\E k \in (0 - MaxNum)..MaxNum : arg[1] = 8 * k) => ret = 8
        /\ arg[1] \in {168, 888} => ret = 8

C7_Witness ==
    /\ fn = "num_to_gua" /\ pc = "returned"
    /\ arg[1] = 888
    /\ ret = 8

\* C8: num_to_yao(n) is in 1..6 and has period 6 for every integer n, negative ones
\* included, every multiple of 6 maps to 6, and the moving line of every result of
\* qigua_by_number and qigua_by_time is in 1..6.
C8_MovingLineFromSeed ==
    /\ (fn = "num_to_yao" /\ pc = "returned") =>
          /\ ret \in 1..6
          /\ ret = num_to_yao(arg[1] + 6)
          /\ (\E k \in (0 - MaxNum)..MaxNum : arg[1] = 6 * k) => ret = 6
    /\ (ByNumber \/ ByTime) => gua_data.yao \in 1..6

C8_Witness ==
    /\ fn = "num_to_yao" /\ pc = "returned"
    /\ arg[1] = 0 - 12
    /\ ret = 6

\* C9: HEXAGRAM_TABLE has 64 entries, one for each pair of 1..8 x 1..8, no name twice;
\* so both hexagrams of every result get a name of the table and format_gua_result
\* never returns the unknown-combination label.
C9_TableTotal ==
    /\ Cardinality(DOMAIN HEXAGRAM_TABLE) = 64
    /\ DOMAIN HEXAGRAM_TABLE = (1..8) \X (1..8)
    /\ Cardinality({ HEXAGRAM_TABLE[k] : k \in DOMAIN HEXAGRAM_TABLE }) = 64
    /\ pc = "formatted" =>
          /\ ben_gua = HEXAGRAM_TABLE[<<gua_data.upper, gua_data.lower>>]
          /\ bian_gua = HEXAGRAM_TABLE[<<gua_data.bian_upper, gua_data.bian_lower>>]
          /\ ben_gua # UNKNOWN_GUA
          /\ bian_gua # UNKNOWN_GUA

C9_Witness ==
    /\ fn = "qigua_by_number" /\ pc = "formatted"
    /\ <<gua_data.upper, gua_data.lower>> = <<3, 6>>
    /\ ben_gua = "706B-6C34-672A-6FDF"
    /\ bian_gua # ben_gua

Failures(os) == Cardinality({ i \in 1..Len(os) : os[i] # "text" })

RECURSIVE Total(_)
Total(s) == IF s = <<>> THEN 0 ELSE Head(s) + Total(Tail(s))

====
